---- MODULE Spec2Model ----
(***************************************************************************)
(* SAFEWAVE cloud API (cloud-api/main.py): the /predict handler, the       *)
(* persisted RiskState document system/risk_state and the reading log      *)
(* safewave_readings.                                                      *)
(*                                                                         *)
(* Units.  Python floats that only take multiples of 0.5 are counted in    *)
(* half points: bio_score and other_score hold 2 * the Python value (so    *)
(* the cutoff "bio_score >= 4" reads ">= 8").  data.ph is held in tenths   *)
(* (7.5 is 75).  temp, tds and turb are held as integers; a temp that is   *)
(* float("nan") is held as NaN.                                            *)
(*                                                                         *)
(* Time.  datetime.utcnow() is the variable now, a count of clock ticks;   *)
(* a month lasts TicksPerMonth ticks.                                      *)
(***************************************************************************)
EXTENDS Integers, Sequences, FiniteSets, TLC

\* ------------------------------------------------------------------ bounds

\* /predict invocations started in one behaviour of Spec.
MaxCalls == 2
\* /predict invocations of one sequential stream (SpecStream).
MaxStream == 6
\* Largest high_count of a RiskState a sequential run starts from.
MaxCount == 6
\* Clock ticks in one behaviour.
MaxTicks == 1
\* Clock ticks in a month.
TicksPerMonth == 2

\* The two request handlers whose steps interleave (FastAPI runs a def
\* handler in a thread pool).
Procs == {1, 2}

\* ------------------------------------------------------------------ inputs

\* data.temp = float("nan"): temp is a float, and every comparison with a
\* NaN is False.  Held as a value that is none of the numeric temperatures.
NaN == -999

IsNumber(x) == x # NaN

Temps == {24, 25, 30, 33, 34, 40, NaN}
Turbs == {49, 50, 500, 10000}
TdsVals == {249, 250, 1000}
PhVals == {74, 75, 90}
Flows == {0, 1}

\* SensorData bodies that /predict is sent.
Readings ==
    [ph : PhVals, temp : Temps, tds : TdsVals, turb : Turbs, flow : Flows]

Reading(ph, temp, tds, turb, flow) ==
    [ph |-> ph, temp |-> temp, tds |-> tds, turb |-> turb, flow |-> flow]

\* The reading of the spec's scenario: temp=40, turb=500, tds=1000, ph=9,
\* flow=0.
ExtremeReading == Reading(90, 40, 1000, 500, 0)

\* The readings the concurrent specification sends.
SpecReadings ==
    { ExtremeReading,
      Reading(90, 24, 1000, 10000, 0),
      Reading(74, 30, 249, 49, 1),
      Reading(90, NaN, 1000, 500, 0) }

\* Labels le.inverse_transform can return.
Labels == {"SAFE", "HIGH_RISK"}

\* ------------------------------------------------------------------- clock

MonthOf(t) == ((t \div TicksPerMonth) % 12) + 1

\* datetime.isoformat(): year, month and the rest of the date and time, most
\* significant first.
IsoFormat(t) ==
    <<t \div (12 * TicksPerMonth), MonthOf(t), t % TicksPerMonth>>

\* The last tick of March: the next tick begins the warm season.
SpecStart == 3 * TicksPerMonth - 1

\* The last tick of March and the last tick of September.
StartTimes == {SpecStart, 9 * TicksPerMonth - 1}

\* --------------------------------------------------------- pure functions

cool_temp(d) == IsNumber(d.temp) /\ d.temp < 25
moderate_temp(d) == IsNumber(d.temp) /\ 25 <= d.temp /\ d.temp < 34
high_temp(d) == IsNumber(d.temp) /\ d.temp >= 34

turb_risk(d) == d.turb >= 50
tds_risk(d) == d.tds >= 250
flow_risk(d) == d.flow = 0
ph_risk(d) == d.ph >= 75

\* bio_score in half points.
BioScore(d, m) ==
    (IF high_temp(d) THEN 6 ELSE IF moderate_temp(d) THEN 2 ELSE 0)
    + (IF turb_risk(d) THEN 3 ELSE 0)
    + (IF tds_risk(d) THEN 2 ELSE 0)
    + (IF flow_risk(d) THEN 2 ELSE 0)
    + (IF ph_risk(d) THEN 1 ELSE 0)
    + (IF m \in {4, 5, 6, 7, 8, 9} /\ IsNumber(d.temp) /\ d.temp >= 30
       THEN 1 ELSE 0)

Min(a, b) == IF a <= b THEN a ELSE b
Max(a, b) == IF a >= b THEN a ELSE b

\* min(100, int((bio_score / 7) * 100)), bio in half points.
RiskPercent(bio) == Min(100, (bio * 100) \div 14)

\* other_score in half points.
OtherScore(d) ==
    (IF turb_risk(d) THEN 2 ELSE 0)
    + (IF tds_risk(d) THEN 2 ELSE 0)
    + (IF flow_risk(d) THEN 2 ELSE 0)
    + (IF ph_risk(d) THEN 1 ELSE 0)

CounterUpdate_DecayThree(bio, hc) ==
    IF bio >= 8 THEN hc + 1 ELSE Max(0, hc - 3)

CounterUpdate_KeepsScore(bio, hc) ==
    IF bio >= 8 THEN hc + (bio - 7) ELSE Max(0, hc - 2)

CounterUpdate_NoClamp(bio, hc) ==
    IF bio >= 8 THEN hc + 1 ELSE hc - 2

CounterUpdate_SlowDecay(bio, hc) ==
    IF bio >= 8 THEN hc + 1 ELSE Max(0, hc - 1)

CounterUpdate_DoubleStep(bio, hc) ==
    IF bio >= 8 THEN hc + 2 ELSE Max(0, hc - 2)

CounterUpdate_AddsScore(bio, hc) ==
    IF bio >= 8 THEN hc + (bio \div 2) ELSE Max(0, hc - 2)

\* The new high_count from the reading's bio_score and the prior high_count.
CounterUpdate(bio, hc) ==
    IF bio >= 8 THEN hc + 1 ELSE Max(0, hc - 2)

FinalDecision_ModerateEscalates(d, hc) ==
    IF cool_temp(d) THEN "SAFE"
    ELSE IF OtherScore(d) < 3
         THEN (IF moderate_temp(d) THEN "SAFE" ELSE "WARNING")
         ELSE IF hc >= 6 THEN "HIGH_RISK" ELSE "WARNING"

FinalDecision_NoConfirm(d, hc) ==
    IF cool_temp(d) THEN "SAFE"
    ELSE IF moderate_temp(d)
         THEN (IF OtherScore(d) < 3 THEN "SAFE" ELSE "WARNING")
         ELSE (IF OtherScore(d) < 3 THEN "WARNING" ELSE "HIGH_RISK")

FinalDecision_NoCoolGate(d, hc) ==
    IF cool_temp(d) \/ moderate_temp(d)
    THEN (IF OtherScore(d) < 3 THEN "SAFE" ELSE "WARNING")
    ELSE (IF OtherScore(d) < 3 THEN "WARNING"
          ELSE IF hc >= 6 THEN "HIGH_RISK" ELSE "WARNING")

FinalDecision_Latched(d, hc) ==
    IF cool_temp(d) THEN "SAFE"
    ELSE IF moderate_temp(d)
         THEN (IF OtherScore(d) < 3 THEN "SAFE" ELSE "WARNING")
         ELSE (IF OtherScore(d) < 3 THEN "WARNING"
               ELSE IF hc = 6 THEN "HIGH_RISK" ELSE "WARNING")

\* The published status from the reading and the new high_count.
FinalDecision(d, hc) ==
    IF cool_temp(d) THEN "SAFE"
    ELSE IF moderate_temp(d)
         THEN (IF OtherScore(d) < 3 THEN "SAFE" ELSE "WARNING")
         ELSE (IF OtherScore(d) < 3 THEN "WARNING"
               ELSE IF hc >= 6 THEN "HIGH_RISK" ELSE "WARNING")

\* ------------------------------------------------------------------- state

VARIABLES
    state_doc,     \* the document system/risk_state
    readings,      \* the collection safewave_readings, in insertion order
    now,           \* datetime.utcnow()
    pc,            \* each handler's position in predict
    data,          \* predict's argument
    instant_ml,    \* predict's local instant_ml
    month,         \* predict's local month
    bio_score,     \* predict's local bio_score (half points)
    risk_percent,  \* predict's local risk_percent
    state,         \* predict's local state
    high_count,    \* predict's local high_count
    status,        \* predict's local status
    result,        \* predict's local result, returned on completion
    error,         \* the exception that ended the invocation, if any
    calls,         \* /predict invocations started so far
    ticks,         \* clock ticks so far
    h_prior,       \* history: state_doc when the behaviour began
    h_risky,       \* history: risky readings saved since high_count was 0
    latest_resp,   \* the responses of GET /latest: none yet, or the last one
    stamp          \* save_state's timestamp, while its set() is under way

vars ==
    <<state_doc, readings, now, pc, data, instant_ml, month, bio_score,
      risk_percent, state, high_count, status, result, error, calls, ticks,
      h_prior, h_risky, latest_resp, stamp>>

locals ==
    <<data, instant_ml, month, bio_score, risk_percent, state, high_count,
      status, result, error>>

None == "none"

\* No document system/risk_state.
AbsentDoc ==
    [exists |-> FALSE, high_count |-> 0, status |-> None, timestamp |-> <<>>]

Doc(hc, st, ts) ==
    [exists |-> TRUE, high_count |-> hc, status |-> st, timestamp |-> ts]

\* The documents save_state can have written: HIGH_RISK is only ever saved
\* with a high_count of 6 or more.
ReachableDocs ==
    { Doc(hc, st, IsoFormat(0)) :
        hc \in 0..MaxCount, st \in {"SAFE", "WARNING"} }
    \cup { Doc(hc, "HIGH_RISK", IsoFormat(0)) : hc \in 6..MaxCount }

get_state ==
    IF state_doc.exists
    THEN [high_count |-> state_doc.high_count, status |-> state_doc.status,
          timestamp |-> state_doc.timestamp]
    ELSE [high_count |-> 0, status |-> "SAFE", timestamp |-> <<>>]

save_state(hc, st, ts) == Doc(hc, st, ts)

InFlight(p) == pc[p] \notin {"idle", "done", "failed"}

InitLocals ==
    /\ pc = [p \in Procs |-> "idle"]
    /\ data = [p \in Procs |-> None]
    /\ instant_ml = [p \in Procs |-> None]
    /\ month = [p \in Procs |-> 0]
    /\ bio_score = [p \in Procs |-> 0]
    /\ risk_percent = [p \in Procs |-> 0]
    /\ state = [p \in Procs |-> None]
    /\ high_count = [p \in Procs |-> 0]
    /\ status = [p \in Procs |-> None]
    /\ result = [p \in Procs |-> None]
    /\ error = [p \in Procs |-> None]
    /\ calls = 0
    /\ ticks = 0
    /\ latest_resp = <<>>
    /\ stamp = [p \in Procs |-> <<>>]

\* After construction: no state document, no readings.
Init ==
    /\ InitLocals
    /\ state_doc = AbsentDoc
    /\ readings = <<>>
    /\ now = SpecStart
    /\ h_prior = state_doc
    /\ h_risky = 0

\* ----------------------------------------------------------------- actions

\* A request arrives: predict(data) is entered.
Start(p, d) ==
    /\ ~InFlight(p)
    /\ pc' = [pc EXCEPT ![p] = "classify"]
    /\ data' = [data EXCEPT ![p] = d]
    /\ instant_ml' = [instant_ml EXCEPT ![p] = None]
    /\ month' = [month EXCEPT ![p] = 0]
    /\ bio_score' = [bio_score EXCEPT ![p] = 0]
    /\ risk_percent' = [risk_percent EXCEPT ![p] = 0]
    /\ state' = [state EXCEPT ![p] = None]
    /\ high_count' = [high_count EXCEPT ![p] = 0]
    /\ status' = [status EXCEPT ![p] = None]
    /\ result' = [result EXCEPT ![p] = None]
    /\ error' = [error EXCEPT ![p] = None]
    /\ stamp' = [stamp EXCEPT ![p] = <<>>]
    /\ calls' = calls + 1
    /\ UNCHANGED <<state_doc, readings, now, ticks, h_prior, h_risky,
                   latest_resp>>

\* rf.predict and le.inverse_transform return a label; then the biological
\* score and risk_percent are computed, with the month read from the clock.
Classify(p, label) ==
    /\ pc[p] = "classify"
    /\ instant_ml' = [instant_ml EXCEPT ![p] = label]
    /\ month' = [month EXCEPT ![p] = MonthOf(now)]
    /\ bio_score' = [bio_score EXCEPT ![p] = BioScore(data[p], MonthOf(now))]
    /\ risk_percent' =
           [risk_percent EXCEPT
              ![p] = RiskPercent(BioScore(data[p], MonthOf(now)))]
    /\ pc' = [pc EXCEPT ![p] = "get_state"]
    /\ UNCHANGED <<state_doc, readings, now, data, state, high_count, status,
                   result, error, calls, ticks, h_prior, h_risky,
                   latest_resp, stamp>>

\* An exception leaves predict: the request ends in an error response.
Raise(p, what) ==
    /\ pc' = [pc EXCEPT ![p] = "failed"]
    /\ error' = [error EXCEPT ![p] = what]
    /\ UNCHANGED <<state_doc, readings, now, data, instant_ml, month,
                   bio_score, risk_percent, state, high_count, status,
                   result, calls, ticks, h_prior, h_risky, latest_resp, stamp>>

\* rf.predict or le.inverse_transform raises.
ClassifyFail(p) ==
    /\ pc[p] = "classify"
    /\ Raise(p, "classifier")

GetState_LabelDriven(p) ==
    /\ pc[p] = "get_state"
    /\ state' = [state EXCEPT ![p] = get_state]
    /\ high_count' =
           [high_count EXCEPT
              ![p] = CounterUpdate(bio_score[p], get_state.high_count)]
    /\ status' =
           [status EXCEPT
              ![p] = IF instant_ml[p] = "HIGH_RISK" THEN "HIGH_RISK"
                     ELSE FinalDecision(
                              data[p],
                              CounterUpdate(bio_score[p],
                                            get_state.high_count))]
    /\ pc' = [pc EXCEPT ![p] = "save_state"]
    /\ UNCHANGED <<state_doc, readings, now, data, instant_ml, month,
                   bio_score, risk_percent, result, error, calls, ticks,
                   h_prior, h_risky, latest_resp, stamp>>

\* The state is read, the counter updated and the status decided.
GetState(p) ==
    /\ pc[p] = "get_state"
    /\ state' = [state EXCEPT ![p] = get_state]
    /\ high_count' =
           [high_count EXCEPT
              ![p] = CounterUpdate(bio_score[p], get_state.high_count)]
    /\ status' =
           [status EXCEPT
              ![p] = FinalDecision(
                         data[p],
                         CounterUpdate(bio_score[p], get_state.high_count))]
    /\ pc' = [pc EXCEPT ![p] = "save_state"]
    /\ UNCHANGED <<state_doc, readings, now, data, instant_ml, month,
                   bio_score, risk_percent, result, error, calls, ticks,
                   h_prior, h_risky, latest_resp, stamp>>

GetStateFail_TreatedAsAbsent(p) ==
    /\ pc[p] = "get_state"
    /\ state' =
           [state EXCEPT
              ![p] = [high_count |-> 0, status |-> "SAFE",
                      timestamp |-> <<>>]]
    /\ high_count' = [high_count EXCEPT ![p] = CounterUpdate(bio_score[p], 0)]
    /\ status' =
           [status EXCEPT
              ![p] = FinalDecision(data[p], CounterUpdate(bio_score[p], 0))]
    /\ error' = [error EXCEPT ![p] = "state_read"]
    /\ pc' = [pc EXCEPT ![p] = "save_state"]
    /\ UNCHANGED <<state_doc, readings, now, data, instant_ml, month,
                   bio_score, risk_percent, result, calls, ticks, h_prior,
                   h_risky, latest_resp, stamp>>

\* The read of system/risk_state raises.
GetStateFail(p) ==
    /\ pc[p] = "get_state"
    /\ Raise(p, "state_read")

\* History: the risky readings (bio_score >= 4) saved since the persisted
\* high_count was last 0, once handler p has saved.
RiskySinceZero(p) ==
    IF high_count[p] = 0 THEN 0
    ELSE IF bio_score[p] >= 8 THEN h_risky + 1 ELSE h_risky

\* save_state builds the dictionary it passes to set(): the timestamp is
\* read from the clock before the call to the store is made.
SaveStateStamp(p) ==
    /\ pc[p] = "save_state"
    /\ stamp' = [stamp EXCEPT ![p] = IsoFormat(now)]
    /\ pc' = [pc EXCEPT ![p] = "set"]
    /\ UNCHANGED <<state_doc, readings, now, locals, calls, ticks, h_prior,
                   h_risky, latest_resp>>

SaveState_PartialWrite(p) ==
    /\ pc[p] = "set"
    /\ state_doc' = [state_doc EXCEPT !.exists = TRUE,
                                      !.high_count = high_count[p],
                                      !.timestamp = stamp[p]]
    /\ stamp' = [stamp EXCEPT ![p] = <<>>]
    /\ pc' = [pc EXCEPT ![p] = "build"]
    /\ h_risky' = RiskySinceZero(p)
    /\ UNCHANGED <<readings, now, locals, calls, ticks, h_prior,
                   latest_resp>>

\* The set() of save_state(high_count, status) takes effect and returns.
SaveState(p) ==
    /\ pc[p] = "set"
    /\ state_doc' = save_state(high_count[p], status[p], stamp[p])
    /\ stamp' = [stamp EXCEPT ![p] = <<>>]
    /\ pc' = [pc EXCEPT ![p] = "build"]
    /\ h_risky' = RiskySinceZero(p)
    /\ UNCHANGED <<readings, now, locals, calls, ticks, h_prior,
                   latest_resp>>

SaveStateFail_Swallowed(p) ==
    /\ pc[p] = "set"
    /\ error' = [error EXCEPT ![p] = "state_write"]
    /\ pc' = [pc EXCEPT ![p] = "build"]
    /\ UNCHANGED <<state_doc, readings, now, data, instant_ml, month,
                   bio_score, risk_percent, state, high_count, status,
                   result, calls, ticks, h_prior, h_risky, latest_resp,
                   stamp>>

\* The write of system/risk_state raises.
SaveStateFail(p) ==
    /\ pc[p] = "set"
    /\ Raise(p, "state_write")

\* The result dictionary.  round(bio_score, 2) leaves a multiple of 0.5 as
\* it is.
MakeResult(p) ==
    [ph |-> data[p].ph, temp |-> data[p].temp, tds |-> data[p].tds,
     turb |-> data[p].turb, flow |-> data[p].flow,
     instant |-> instant_ml[p], bio_score |-> bio_score[p],
     risk_percent |-> risk_percent[p], high_count |-> high_count[p],
     status |-> status[p], timestamp |-> IsoFormat(now)]

\* The result is built, with its timestamp.
BuildResult(p) ==
    /\ pc[p] = "build"
    /\ result' = [result EXCEPT ![p] = MakeResult(p)]
    /\ pc' = [pc EXCEPT ![p] = "add"]
    /\ UNCHANGED <<state_doc, readings, now, data, instant_ml, month,
                   bio_score, risk_percent, state, high_count, status,
                   error, calls, ticks, h_prior, h_risky, latest_resp, stamp>>

\* The result is added to safewave_readings and returned.
AddReading(p) ==
    /\ pc[p] = "add"
    /\ readings' = Append(readings, result[p])
    /\ pc' = [pc EXCEPT ![p] = "done"]
    /\ UNCHANGED <<state_doc, now, locals, calls, ticks, h_prior, h_risky,
                   latest_resp, stamp>>

\* The add to safewave_readings raises.
AddReadingFail(p) ==
    /\ pc[p] = "add"
    /\ Raise(p, "log_add")

\* Time passes.
Tick ==
    /\ ticks < MaxTicks
    /\ now' = now + 1
    /\ ticks' = ticks + 1
    /\ UNCHANGED <<state_doc, readings, locals, pc, calls, h_prior, h_risky,
                   latest_resp, stamp>>

\* -------------------------------------------------- concurrent handlers

Request(p) ==
    /\ calls < MaxCalls
    /\ \E d \in SpecReadings : Start(p, d)

Classified(p) == \E label \in Labels : Classify(p, label)

\* One trained classifier: rf.predict is a function of the reading.  This
\* one labels the extreme readings HIGH_RISK and the others SAFE.
ClassifiedAs(p) ==
    Classify(p, IF high_temp(data[p]) /\ OtherScore(data[p]) >= 3
                THEN "HIGH_RISK" ELSE "SAFE")

Next ==
    \/ \E p \in Procs : Request(p)
    \/ \E p \in Procs : Classified(p)
    \/ \E p \in Procs : ClassifyFail(p)
    \/ \E p \in Procs : GetState(p)
    \/ \E p \in Procs : GetStateFail(p)
    \/ \E p \in Procs : SaveStateStamp(p)
    \/ \E p \in Procs : SaveState(p)
    \/ \E p \in Procs : SaveStateFail(p)
    \/ \E p \in Procs : BuildResult(p)
    \/ \E p \in Procs : AddReading(p)
    \/ \E p \in Procs : AddReadingFail(p)

\* Overlapping /predict invocations on a fresh store, with failures, within
\* one instant of the clock; SpecLatest lets the clock advance between the
\* steps of overlapping invocations.
Spec == Init /\ [][Next]_vars

\* ------------------------------------------------- one invocation alone

\* A RiskState the program can have persisted and an empty reading log (the
\* add to safewave_readings of every earlier invocation raised, or the
\* collection is new).
InitAnyState ==
    /\ InitLocals
    /\ state_doc \in {AbsentDoc} \cup ReachableDocs
    /\ readings = <<>>
    /\ now \in StartTimes
    /\ h_prior = state_doc
    /\ h_risky = state_doc.high_count

RequestOne ==
    /\ calls = 0
    /\ \E d \in Readings : Start(1, d)

NextOne ==
    \/ RequestOne
    \/ Classified(1)
    \/ GetState(1)
    \/ SaveStateStamp(1)
    \/ SaveState(1)
    \/ BuildResult(1)
    \/ AddReading(1)
    \/ Tick

\* One /predict invocation, from any persisted RiskState, with any reading.
SpecOne == InitAnyState /\ [][NextOne]_vars

\* ------------------------------- one invocation alone, with failures

NextFail ==
    \/ RequestOne
    \/ Classified(1)
    \/ ClassifyFail(1)
    \/ GetState(1)
    \/ GetStateFail(1)
    \/ SaveStateStamp(1)
    \/ SaveState(1)
    \/ SaveStateFail(1)
    \/ BuildResult(1)
    \/ AddReading(1)
    \/ AddReadingFail(1)
    \/ Tick

\* One /predict invocation, from any persisted RiskState, with any reading,
\* in which the classifier, the state store and the reading log may raise.
SpecFail == InitAnyState /\ [][NextFail]_vars

\* ------------------------------------------------- a sequential stream

ReadingOf(rec) == Reading(rec.ph, rec.temp, rec.tds, rec.turb, rec.flow)

\* temp >= 34 and other_score >= 1.5.
IsExtreme(d) == high_temp(d) /\ OtherScore(d) >= 3

\* The kind of stream a reading belongs to in month m: extreme readings,
\* safe readings (bio_score < 4), or neither.
StreamClass(d, m) ==
    IF IsExtreme(d) THEN "extreme"
    ELSE IF BioScore(d, m) < 8 THEN "safe" ELSE "mixed"

StreamReadings ==
    { ExtremeReading,
      Reading(75, 34, 250, 49, 1),
      Reading(74, 24, 249, 49, 1),
      Reading(75, 34, 249, 49, 1),
      Reading(74, NaN, 249, 49, 1) }

\* The kind of the stream under way.
StreamKind ==
    IF readings = <<>> THEN "none"
    ELSE StreamClass(ReadingOf(readings[1]), MonthOf(now))

\* The next request of the stream: sent once the previous one has returned,
\* with a reading of the stream's kind.
RequestStream ==
    /\ calls < MaxStream
    /\ calls = Len(readings)
    /\ \E d \in StreamReadings :
          /\ StreamClass(d, MonthOf(now)) # "mixed"
          /\ readings # <<>> => StreamClass(d, MonthOf(now)) = StreamKind
          /\ Start(1, d)

NextStream ==
    \/ RequestStream
    \/ ClassifiedAs(1)
    \/ GetState(1)
    \/ SaveStateStamp(1)
    \/ SaveState(1)
    \/ BuildResult(1)
    \/ AddReading(1)

\* A sequential stream of /predict invocations whose readings are all
\* extreme or all safe, from any persisted RiskState.
SpecStream == InitAnyState /\ [][NextStream]_vars

\* ------------------------------------------------------------------ claims

\* ------------------------------------------------------------ GET /latest

\* The order of the timestamp strings: isoformat() compares as the instants
\* do, field by field.
IsoLeq(a, b) ==
    \/ a[1] < b[1]
    \/ a[1] = b[1] /\ a[2] < b[2]
    \/ a[1] = b[1] /\ a[2] = b[2] /\ a[3] <= b[3]

NoData == [error |-> "No data available"]

\* order_by("timestamp", DESCENDING).limit(1): a record no other record has
\* a later timestamp than; among equal timestamps the store's order decides.
LatestDocs ==
    { readings[i] : i \in { j \in 1..Len(readings) :
        \A k \in 1..Len(readings) :
            IsoLeq(readings[k].timestamp, readings[j].timestamp) } }

\* GET /latest.
Latest ==
    /\ UNCHANGED <<pc, calls, ticks>>
    /\ UNCHANGED <<state_doc, readings, now, locals, h_prior, h_risky,
                   stamp>>
    /\ \E doc \in (IF LatestDocs = {} THEN {NoData} ELSE LatestDocs) :
          latest_resp' = <<doc>>

NextLatest ==
    \/ \E p \in Procs : Request(p)
    \/ \E p \in Procs : Classified(p)
    \/ \E p \in Procs : GetState(p)
    \/ \E p \in Procs : SaveStateStamp(p)
    \/ \E p \in Procs : SaveState(p)
    \/ \E p \in Procs : BuildResult(p)
    \/ \E p \in Procs : AddReading(p)
    \/ Tick
    \/ Latest

\* Overlapping /predict invocations and GET /latest, on a fresh store.
SpecLatest == Init /\ [][NextLatest]_vars

\* ------------------------- overlapping invocations on a persisted state

\* The number of invocations.
MaxRace == 4

\* An extreme reading and a clean one.
RaceReadings == { ExtremeReading, Reading(74, 30, 249, 49, 1) }

RequestRace(p) ==
    /\ calls < MaxRace
    /\ \E d \in RaceReadings : Start(p, d)

NextRace ==
    \/ \E p \in Procs : RequestRace(p)
    \/ \E p \in Procs : ClassifiedAs(p)
    \/ \E p \in Procs : GetState(p)
    \/ \E p \in Procs : SaveStateStamp(p)
    \/ \E p \in Procs : SaveState(p)
    \/ \E p \in Procs : BuildResult(p)
    \/ \E p \in Procs : AddReading(p)

\* Overlapping /predict invocations, from any persisted RiskState.
SpecRace == InitAnyState /\ [][NextRace]_vars

\* --------------------------------- consecutive sequential invocations

\* The number of consecutive invocations.
MaxPair == 2

\* Readings of each kind: extreme, cool with every flag, clean, moderate
\* with every flag, hot and otherwise clean, and temp NaN with every flag
\* and with none.
PairReadings ==
    { ExtremeReading,
      Reading(90, 24, 1000, 10000, 0),
      Reading(74, 30, 249, 49, 1),
      Reading(90, 33, 1000, 500, 0),
      Reading(74, 40, 249, 49, 1),
      Reading(90, NaN, 1000, 500, 0),
      Reading(74, NaN, 249, 49, 1) }

\* The next request is sent once the previous one has returned.
RequestPair ==
    /\ calls < MaxPair
    /\ calls = Len(readings)
    /\ \E d \in PairReadings : Start(1, d)

NextPair ==
    \/ RequestPair
    \/ Classified(1)
    \/ GetState(1)
    \/ SaveStateStamp(1)
    \/ SaveState(1)
    \/ BuildResult(1)
    \/ AddReading(1)

\* Consecutive sequential /predict invocations with any readings, from any
\* persisted RiskState.
SpecPair == InitAnyState /\ [][NextPair]_vars

\* ------------------------------------------------------------ the claims

Risky(p) == bio_score[p] >= 8

\* The handler has read the state and decided.
Decided(p) == pc[p] \in {"save_state", "set", "build", "add", "done"}

\* C1: when two /predict invocations that each carry a risky reading
\* (bio_score >= 4) run against the same RiskState, the persisted high_count
\* after both have completed is 2 greater than before either started,
\* however their get_state and save_state steps interleave.
C1_NoLostIncrement ==
    (/\ calls = 2
     /\ pc[1] = "done" /\ pc[2] = "done"
     /\ Risky(1) /\ Risky(2))
    => state_doc.high_count = h_prior.high_count + 2

\* C2: one /predict invocation whose prior persisted high_count is 0, or
\* whose state document does not exist, never publishes HIGH_RISK; the
\* reading temp=40, turb=500, tds=1000, ph=9, flow=0 on a fresh state
\* publishes WARNING with high_count 1.
C2_NoSingleShotHighRisk ==
    (pc[1] = "done" /\ h_prior.high_count = 0)
    => /\ result[1].status # "HIGH_RISK"
       /\ readings[Len(readings)].status # "HIGH_RISK"
       /\ state_doc.status # "HIGH_RISK"
       /\ (~h_prior.exists /\ data[1] = ExtremeReading)
          => /\ result[1].status = "WARNING"
             /\ result[1].high_count = 1
             /\ readings[Len(readings)] = result[1]

C2_Witness ==
    /\ pc[1] = "done"
    /\ ~h_prior.exists
    /\ data[1] = ExtremeReading
    /\ result[1].status = "WARNING"

\* A fresh state, and the same extreme reading sent again and again.
C3_Replay ==
    /\ ~h_prior.exists
    /\ readings # <<>>
    /\ IsExtreme(ReadingOf(readings[1]))
    /\ \A i \in 1..Len(readings) :
          ReadingOf(readings[i]) = ReadingOf(readings[1])

\* C3: from a fresh state, replaying the same extreme reading (temp >= 34
\* and other_score >= 1.5) publishes WARNING on each of the first 5 calls and
\* HIGH_RISK on the 6th.
C3_SustainedEscalation ==
    C3_Replay
    => \A i \in 1..Len(readings) :
          /\ i < 6 => readings[i].status = "WARNING"
          /\ i = 6 => readings[i].status = "HIGH_RISK"

C3_Witness ==
    /\ C3_Replay
    /\ Len(readings) = 6
    /\ readings[5].status = "WARNING"
    /\ readings[6].status = "HIGH_RISK"

\* C4: every /predict invocation whose reading has temp < 25 publishes and
\* persists status SAFE, whatever the other fields of the reading and the
\* prior high_count and status.
C4_CoolIsSafe ==
    (Decided(1) /\ cool_temp(data[1]))
    => /\ status[1] = "SAFE"
       /\ pc[1] \in {"build", "add", "done"} => state_doc.status = "SAFE"
       /\ pc[1] \in {"add", "done"} => result[1].status = "SAFE"
       /\ pc[1] = "done" => readings[Len(readings)].status = "SAFE"

C4_Witness ==
    /\ pc[1] = "done"
    /\ data[1] = Reading(90, 24, 1000, 10000, 0)
    /\ h_prior.status = "HIGH_RISK"
    /\ high_count[1] >= 6
    /\ state_doc.status = "SAFE"

\* C5: starting from an absent state document, under every sequence and
\* interleaving of /predict invocations the persisted high_count and the
\* high_count of every stored record are >= 0.
C5_CountNonNegative ==
    /\ state_doc.high_count >= 0
    /\ \A i \in 1..Len(readings) : readings[i].high_count >= 0
    /\ \A p \in Procs : Decided(p) => high_count[p] >= 0

C5_Witness ==
    /\ state_doc.exists
    /\ state_doc.high_count = 0
    /\ \E i \in 1..Len(readings) :
          readings[i].bio_score < 8 /\ readings[i].high_count = 0

\* The stream under way is of safe readings (bio_score < 4).
SafeStream == readings # <<>> /\ StreamKind = "safe"

\* The stream under way is of extreme readings.
ExtremeStream == readings # <<>> /\ StreamKind = "extreme"

\* ceil(k / 2).
HalfUp(k) == (k + 1) \div 2

\* C6: from a persisted high_count of k, a sequential run of readings with
\* bio_score < 4 brings high_count to 0 after at most ceil(k/2) invocations,
\* and it stays 0 on every further invocation of the run.
C6_SafeRunReachesZero ==
    SafeStream
    => /\ \A i \in 1..Len(readings) :
             i >= HalfUp(h_prior.high_count) => readings[i].high_count = 0
       /\ (pc[1] = "done" /\ Len(readings) >= HalfUp(h_prior.high_count))
          => state_doc.high_count = 0

C6_Witness ==
    /\ SafeStream
    /\ h_prior.high_count = 5
    /\ Len(readings) = 6
    /\ readings[2].high_count = 1
    /\ readings[3].high_count = 0
    /\ readings[6].high_count = 0
    /\ pc[1] = "done"

\* C7: from any persisted RiskState, a sequential stream of readings with
\* temp >= 34 and other_score >= 1.5 publishes HIGH_RISK within at most 6
\* invocations and on every later invocation of the stream.
C7_SustainedTrendEscalates ==
    ExtremeStream
    => /\ \A i \in 1..Len(readings) :
             i >= 6 => readings[i].status = "HIGH_RISK"
       /\ \A i, j \in 1..Len(readings) :
             (i < j /\ readings[i].status = "HIGH_RISK")
             => readings[j].status = "HIGH_RISK"

C7_Witness ==
    /\ ExtremeStream
    /\ h_prior.high_count = 3
    /\ Len(readings) = 6
    /\ readings[2].status = "WARNING"
    /\ readings[3].status = "HIGH_RISK"
    /\ readings[6].status = "HIGH_RISK"

\* The persisted status is SAFE with high_count 0 and the one invocation,
\* carrying a risky reading, has returned.
C8_SpikeAfterSafe ==
    /\ pc[1] = "done"
    /\ h_prior.exists
    /\ h_prior.status = "SAFE"
    /\ h_prior.high_count = 0
    /\ Risky(1)

\* C8 as stated: with persisted status SAFE and high_count 0, one /predict
\* invocation carrying a risky reading (bio_score >= 4) still publishes SAFE.
C8_SpikeKeepsSafe ==
    C8_SpikeAfterSafe => result[1].status = "SAFE"

\* C8 as amended: with persisted status SAFE and high_count 0, one /predict
\* invocation carrying a risky reading never publishes HIGH_RISK: it
\* publishes SAFE when the reading is in the cool zone (temp < 25) and
\* WARNING otherwise.
C8_SpikeNeverHighRisk ==
    C8_SpikeAfterSafe
    => /\ result[1].status = (IF cool_temp(data[1]) THEN "SAFE" ELSE "WARNING")
       /\ readings[Len(readings)].status = result[1].status
       /\ state_doc.status = result[1].status

C8_Witness ==
    /\ C8_SpikeAfterSafe
    /\ data[1] = ExtremeReading
    /\ result[1].status = "WARNING"
    /\ state_doc.high_count = 1

\* What a record holds besides the advisory label and the timestamp.
Decision(rec) == [rec EXCEPT !.instant = None, !.timestamp = <<>>]

\* Two invocations with the same reading, the same prior RiskState and the
\* same calendar month.
C9_SameInputs(p, q) ==
    /\ Decided(p) /\ Decided(q)
    /\ data[p] = data[q]
    /\ month[p] = month[q]
    /\ state[p].high_count = state[q].high_count
    /\ state[p].status = state[q].status

\* C9: two /predict invocations with the same reading, the same prior
\* RiskState and the same calendar month persist the same high_count and
\* status whatever the classifier returned, and their records differ only in
\* the advisory label and the timestamp.
C9_LabelIsAdvisory ==
    \A p, q \in Procs :
        C9_SameInputs(p, q)
        => /\ high_count[p] = high_count[q]
           /\ status[p] = status[q]
           /\ (pc[p] = "done" /\ pc[q] = "done")
              => Decision(result[p]) = Decision(result[q])

C9_Witness ==
    /\ C9_SameInputs(1, 2)
    /\ pc[1] = "done" /\ pc[2] = "done"
    /\ instant_ml[1] # instant_ml[2]
    /\ result[1].instant # result[2].instant

\* C10: when the classifier raises during /predict the invocation still
\* completes: it goes on with the advisory label UNKNOWN and never ends in
\* an error.
C10_ClassifierFailureRecovered ==
    \A p \in Procs :
        error[p] = "classifier"
        => pc[p] # "failed" /\ instant_ml[p] = "UNKNOWN"

\* C11: whenever a /predict invocation ends in an error (classifier, state
\* read, state write or reading-log add), the persisted RiskState and the
\* reading log are what they were before that invocation.
C11_FailsAtomically ==
    pc[1] = "failed"
    => /\ state_doc.exists = h_prior.exists
       /\ state_doc.high_count = h_prior.high_count
       /\ state_doc.status = h_prior.status
       /\ readings = <<>>

\* C12: if the write in save_state fails, the invocation fails: no record is
\* returned and none is appended, so a returned or stored record always
\* reports the high_count and status that were written to RiskState.
C12_WriteFailureNotReported ==
    /\ error[1] = "state_write"
       => /\ pc[1] = "failed"
          /\ result[1] = None
          /\ readings = <<>>
          /\ state_doc = h_prior
    /\ pc[1] \in {"add", "done"}
       => /\ error[1] = None
          /\ state_doc.exists
          /\ state_doc.high_count = result[1].high_count
          /\ state_doc.status = result[1].status
    /\ \A i \in 1..Len(readings) :
          /\ state_doc.high_count = readings[i].high_count
          /\ state_doc.status = readings[i].status

C12_Witness ==
    /\ error[1] = "state_write"
    /\ pc[1] = "failed"
    /\ h_prior.status = "WARNING"
    /\ status[1] = "HIGH_RISK"
    /\ state_doc.status = "WARNING"

\* C13: the default prior state {high_count: 0, status: SAFE} is used only
\* when the state document is absent; if the read of the state fails,
\* /predict fails without writing RiskState, so an existing nonzero
\* high_count is not reset.
C13_DefaultOnlyWhenAbsent ==
    /\ error[1] = "state_read"
       => /\ pc[1] = "failed"
          /\ state_doc = h_prior
          /\ readings = <<>>
    /\ (Decided(1) /\ error[1] = None)
       => /\ state[1].high_count = h_prior.high_count
          /\ (state[1].timestamp = <<>>) <=> ~h_prior.exists
          /\ h_prior.exists => state[1].status = h_prior.status

C13_Witness ==
    /\ error[1] = "state_read"
    /\ pc[1] = "failed"
    /\ h_prior.high_count > 0
    /\ state_doc.high_count = h_prior.high_count

\* C14: under any interleaving of concurrent /predict invocations and any
\* failure point, the persisted RiskState changes only by one save_state of
\* one invocation, which writes the high_count and the status that this
\* invocation computed together; no step writes one field without the other.
C14_WrittenTogether ==
    [][state_doc' # state_doc
       => \E p \in Procs :
            /\ pc[p] = "set" /\ pc'[p] = "build"
            /\ state_doc'.exists
            /\ state_doc'.high_count = high_count[p]
            /\ state_doc'.status = status[p]
            /\ status[p] = FinalDecision(data[p], high_count[p])
            /\ high_count[p] = CounterUpdate(bio_score[p], state[p].high_count)
      ]_vars

\* Two invocations overlap, one has saved, and the other is about to save the
\* same high_count with another status.
C14_Witness ==
    /\ state_doc.exists
    /\ pc[1] = "build"
    /\ state_doc.status = status[1]
    /\ pc[2] = "save_state"
    /\ high_count[2] = state_doc.high_count
    /\ status[2] # state_doc.status

\* C17: temperature gates the ceiling and the floor of the status for every
\* other_score and every high_count: a moderate-zone reading
\* (25 <= temp < 34) never publishes HIGH_RISK, also with high_count >= 6; a
\* high-zone reading (temp >= 34) never publishes SAFE; the three zones
\* exclude each other, and every combination of zone, other_score and
\* high_count yields one of the three statuses, which is the one persisted.
C17_TemperatureGates ==
    Decided(1)
    => /\ moderate_temp(data[1]) => status[1] # "HIGH_RISK"
       /\ high_temp(data[1]) => status[1] # "SAFE"
       /\ status[1] \in {"SAFE", "WARNING", "HIGH_RISK"}
       /\ Cardinality({z \in {"cool", "moderate", "high"} :
             \/ z = "cool" /\ cool_temp(data[1])
             \/ z = "moderate" /\ moderate_temp(data[1])
             \/ z = "high" /\ high_temp(data[1])}) <= 1
       /\ pc[1] \in {"build", "add", "done"}
          => state_doc.status = status[1]

C17_Witness ==
    /\ pc[1] = "done"
    /\ moderate_temp(data[1])
    /\ OtherScore(data[1]) >= 3
    /\ high_count[1] >= 6
    /\ status[1] = "WARNING"
    /\ readings[1].status = "WARNING"

\* The greatest bio_score: every flag set, high temperature, in season.
MaxPossibleScore == BioScore(ExtremeReading, 6)

\* round(n / d) for n >= 0, d > 0.
RoundDiv(n, d) == (2 * n + d) \div (2 * d)

\* clamp(round(bio_score / max_possible_score * 100), 0, 100).
NormalizedPercent(bio) ==
    Max(0, Min(100, RoundDiv(bio * 100, MaxPossibleScore)))

\* C19: for every bio_score the rules can produce, the risk_percent of the
\* DecisionRecord equals clamp(round(bio_score / max_possible_score * 100),
\* 0, 100), max_possible_score being the greatest reachable bio_score.
C19_RiskPercentNormalized ==
    /\ Decided(1) => risk_percent[1] = NormalizedPercent(bio_score[1])
    /\ \A i \in 1..Len(readings) :
          readings[i].risk_percent = NormalizedPercent(readings[i].bio_score)

\* The high_count persisted before the i-th stored record was decided.
CountBefore(i) ==
    IF i = 1 THEN h_prior.high_count ELSE readings[i - 1].high_count

\* C15: with increment step 1 and decay step 2, one risky reading
\* (bio_score >= 4) followed sequentially by one safe reading (bio_score < 4)
\* starting from high_count k leaves the persisted high_count at
\* max(0, k - 1), which is 0 for k = 0: one safe reading fully offsets one
\* risky reading.
C15_SafeOffsetsRisky ==
    /\ \A i \in 1..(Len(readings) - 1) :
          (readings[i].bio_score >= 8 /\ readings[i + 1].bio_score < 8)
          => /\ readings[i].high_count = CountBefore(i) + 1
             /\ readings[i + 1].high_count = Max(0, CountBefore(i) - 1)
             /\ CountBefore(i) = 0 => readings[i + 1].high_count = 0
    /\ (pc[1] = "done" /\ readings # <<>>)
       => state_doc.high_count = readings[Len(readings)].high_count

C15_Witness ==
    /\ pc[1] = "done"
    /\ Len(readings) = 2
    /\ h_prior.high_count = 3
    /\ readings[1].bio_score >= 8
    /\ readings[2].bio_score < 8
    /\ state_doc.high_count = 2

\* C20 as stated: across consecutive sequential /predict invocations, if one
\* invocation publishes SAFE, the next one publishes SAFE or WARNING, for
\* every pair of readings and every reachable high_count.
C20_NoJumpFromSafe ==
    \A i \in 1..(Len(readings) - 1) :
        readings[i].status = "SAFE"
        => readings[i + 1].status \in {"SAFE", "WARNING"}

\* C20: across consecutive sequential /predict invocations, if one
\* invocation publishes SAFE and leaves a persisted high_count of at most 4,
\* the next one publishes SAFE or WARNING; when the SAFE publication leaves
\* high_count >= 5, an extreme reading next publishes HIGH_RISK.
C20_NoJumpFromSafeBelowFive ==
    \A i \in 1..(Len(readings) - 1) :
        readings[i].status = "SAFE"
        => /\ readings[i].high_count <= 4
              => readings[i + 1].status \in {"SAFE", "WARNING"}
           /\ (readings[i].high_count >= 5
               /\ IsExtreme(ReadingOf(readings[i + 1])))
              => readings[i + 1].status = "HIGH_RISK"

C20_Witness ==
    /\ pc[1] = "done"
    /\ Len(readings) = 2
    /\ readings[1].status = "SAFE"
    /\ readings[1].bio_score >= 8
    /\ readings[1].high_count = 4
    /\ IsExtreme(ReadingOf(readings[2]))
    /\ readings[2].high_count = 5
    /\ readings[2].status = "WARNING"

\* C16: GET /latest returns {"error": "No data available"} exactly when no
\* DecisionRecord has been stored, and otherwise returns the DecisionRecord
\* that was stored most recently by /predict, also when /predict invocations
\* overlap in time.
C16_LatestIsLastStored ==
    [][Latest
       => latest_resp' = <<IF readings = <<>> THEN NoData
                           ELSE readings[Len(readings)]>>]_vars

\* C18: whenever a /predict invocation publishes HIGH_RISK, at least 6
\* invocations with bio_score >= 4 (the current one included) have been
\* processed since high_count was last 0: the persisted high_count never
\* exceeds the number of risky readings processed since then, under any
\* sequence or interleaving.
C18_HighRiskNeedsRepetition ==
    /\ state_doc.high_count <= h_risky
    /\ state_doc.status = "HIGH_RISK" => h_risky >= 6

====
